---- MODULE Spec2Model ----
(***************************************************************************)
(* TCP Mario congestion control (tcp_mario.c).                             *)
(*                                                                         *)
(* The module keeps five file-scope u32 variables (bandwidth, base_cwnd,   *)
(* rtt, rtt_cnt, factor) that every connection shares, and writes the      *)
(* per-socket field tp->snd_cwnd.  The kernel calls the five hooks of      *)
(* tcp_mario (init, cong_avoid, ssthresh, pkts_acked, undo_cwnd); the      *)
(* operator writes bandwidth and factor through /proc/sys.                 *)
(***************************************************************************)
EXTENDS Integers, FiniteSets, Sequences, TLC

\* ------------------------------------------------------------------------
\* Program constants
\* ------------------------------------------------------------------------
SAMPLE_SIZE == 100
INIT_FACTOR == 10

\* A u32 is held as the integer with the same 32 bits in two's complement:
\* 0 .. 2^31-1 stand for themselves, -2^31 .. -1 stand for 2^31 .. 2^32-1.
\* W is the weight of the upper 16-bit half; Hi and Lo are the two halves.
W == 2^16

\* ------------------------------------------------------------------------
\* Bounds of the model
\* ------------------------------------------------------------------------
\* socket slots that can carry a connection using "mario"
Socks == {1, 2}
\* the kernel's own window reductions leave snd_cwnd in 1..MaxKernelCwnd
MaxKernelCwnd == 1
\* integers the operator writes to /proc/sys/net/ipv4/tcp_mario/bandwidth
BandwidthWrites == {1000, -1}
\* integers the operator writes to /proc/sys/net/ipv4/tcp_mario/factor
FactorWrites == {0, 1}
\* rtt_us arguments the kernel passes to pkts_acked (microseconds)
RttSamples == {-500, 150000, 300000}

KernelCwnd == 1..MaxKernelCwnd
\* rtt_us arguments of the estimator specification: 50 ms and 299 ms samples
\* mix into every average from 50 to 299
EstSamples == {-500, 50000, 299999}

\* ------------------------------------------------------------------------
\* State
\* ------------------------------------------------------------------------
VARIABLES
    bandwidth,   \* static u32 bandwidth
    base_cwnd,   \* static u32 base_cwnd
    rtt,         \* static u32 rtt      (sum of the accepted samples, ms)
    rtt_cnt,     \* static u32 rtt_cnt  (number of accepted samples)
                 \* (both stay far below 2^31: rtt_cnt <= 101, rtt < 300 * 101)
    factor,      \* static u32 factor
    snd_cwnd,    \* tp->snd_cwnd of every socket that runs "mario"
    call,        \* the hook or write that ran last, with its arguments
    ret,         \* what that call returned: <<v>>, or << >> for a void hook
    outcome,     \* "ok", or "div_trap" once a division by zero has trapped
    frame,       \* the pkts_acked calls in progress, one per socket at most:
                 \* the line the call stands at and its locals rtt_us, avg_rtt
    recomputed   \* line 98 has been executed since the last init

vars == <<bandwidth, base_cwnd, rtt, rtt_cnt, factor, snd_cwnd, call, ret, outcome,
          frame, recomputed>>

NoRet == << >>

\* ------------------------------------------------------------------------
\* Arithmetic of the C code
\* ------------------------------------------------------------------------
Hi(x) == (x \div W) % W
Lo(x) == x % W

\* the u32 whose halves are hi and lo, each taken modulo 2^16
U32(hi, lo) ==
    LET h == hi % W
    IN  (IF h < W \div 2 THEN h ELSE h - W) * W + (lo % W)

\* x + y on u32
AddU32(x, y) ==
    LET l == Lo(x) + Lo(y)
    IN  U32(Hi(x) + Hi(y) + (l \div W), l)

\* x * k on u32, for 0 <= k <= 2^15
MulU32(x, k) ==
    LET l == Lo(x) * k
    IN  U32(Hi(x) * k + (l \div W), l)

\* x << n on u32, for 0 <= n < 32
ShlBits(x, n) ==
    IF n < 16 THEN MulU32(x, 2^n) ELSE U32(Lo(x) * 2^(n - 16), 0)

\* x << n on u32.  A shift count >= 32 is undefined: the hardware either
\* masks the count to five bits or shifts everything out.
Shl(x, n) ==
    IF n < 32 THEN {ShlBits(x, n)} ELSE {ShlBits(x, n % 32), 0}

\* n / d on u32, for a numerator 0 <= n < 2^31 and d # 0
DivU32(n, d) == IF d < 0 THEN 0 ELSE n \div d

\* C integer division truncates toward zero (s32 rtt_us /= 1000)
TruncDiv(a, b) == IF a >= 0 THEN a \div b ELSE -((-a) \div b)

\* Mutant of ValidSample: the upper limit taken inclusive (<= 300).
ValidSampleUpTo300(ms) == ms > 0 /\ ms <= 300

\* Mutant of ValidSample: the upper limit one too low (< 299).
ValidSampleBelow299(ms) == ms > 0 /\ ms < 299

\* Mutant of ValidSample: the lower limit taken inclusive (>= 0).
ValidSampleFromZero(ms) == ms >= 0 /\ ms < 300

\* rtt_us > 0 && rtt_us < 300   (after the division by 1000)
ValidSample(ms) == ms > 0 /\ ms < 300

\* avg_rtt = rtt/rtt_cnt
AvgRtt(sum, cnt) == sum \div cnt

\* factor * 1000 on u32
Divisor(f) == MulU32(f, 1000)

\* 1 + bandwidth << 10 * avg_rtt/(factor * 1000)
\* C precedence: * and / bind tighter than +, which binds tighter than <<,
\* so this is (1 + bandwidth) << ((10 * avg_rtt) / (factor * 1000)).
\* ShiftCount is defined for Divisor(f) # 0; q is the quotient.
ShiftCount(avg, f) == DivU32(10 * avg, Divisor(f))
EstimateWith(bw, q) == Shl(AddU32(1, bw), q)
Estimate(bw, avg, f) == EstimateWith(bw, ShiftCount(avg, f))

\* ------------------------------------------------------------------------
\* Initial state: the module is loaded, no connection uses it yet
\* ------------------------------------------------------------------------
Init ==
    /\ bandwidth = 0
    /\ base_cwnd = 0
    /\ rtt = 0
    /\ rtt_cnt = 0
    /\ factor = INIT_FACTOR
    /\ snd_cwnd = [s \in {} |-> 0]
    /\ call = [op |-> "register", sk |-> 0, rtt_us |-> 0]
    /\ ret = NoRet
    /\ outcome = "ok"
    /\ frame = [s \in {} |-> 0]
    /\ recomputed = FALSE

Running == outcome = "ok"

SetCwnd(sk, w) ==
    snd_cwnd' = [s \in DOMAIN snd_cwnd \cup {sk} |-> IF s = sk THEN w ELSE snd_cwnd[s]]

\* ------------------------------------------------------------------------
\* Hooks
\* ------------------------------------------------------------------------
\* Mutant of tcp_mario_init: tp->snd_cwnd is assigned before base_cwnd is
\* refreshed, so the socket gets the stale base_cwnd.
tcp_mario_init_stale(sk) ==
    /\ Running
    /\ base_cwnd' = ShlBits(bandwidth, 7)
    /\ rtt' = 0
    /\ rtt_cnt' = 0
    /\ SetCwnd(sk, base_cwnd)
    /\ call' = [op |-> "init", sk |-> sk, rtt_us |-> 0]
    /\ ret' = NoRet
    /\ UNCHANGED <<bandwidth, factor, outcome>>
    /\ recomputed' = FALSE
    /\ UNCHANGED frame

\* Mutant of tcp_mario_init: the sum of the samples is not reset.
tcp_mario_init_keepsum(sk) ==
    /\ Running
    /\ base_cwnd' = ShlBits(bandwidth, 7)
    /\ rtt_cnt' = 0
    /\ SetCwnd(sk, base_cwnd')
    /\ call' = [op |-> "init", sk |-> sk, rtt_us |-> 0]
    /\ ret' = NoRet
    /\ UNCHANGED <<bandwidth, factor, rtt, outcome>>
    /\ recomputed' = FALSE
    /\ UNCHANGED frame

tcp_mario_init(sk) ==
    /\ Running
    /\ base_cwnd' = ShlBits(bandwidth, 7)
    /\ rtt' = 0
    /\ rtt_cnt' = 0
    /\ SetCwnd(sk, base_cwnd')
    /\ call' = [op |-> "init", sk |-> sk, rtt_us |-> 0]
    /\ ret' = NoRet
    /\ UNCHANGED <<bandwidth, factor, outcome>>
    /\ recomputed' = FALSE
    /\ UNCHANGED frame

tcp_mario_cong_avoid(sk) ==
    /\ Running
    /\ sk \in DOMAIN snd_cwnd
    /\ SetCwnd(sk, base_cwnd)
    /\ call' = [op |-> "cong_avoid", sk |-> sk, rtt_us |-> 0]
    /\ ret' = NoRet
    /\ UNCHANGED <<bandwidth, base_cwnd, rtt, rtt_cnt, factor, outcome>>
    /\ UNCHANGED <<frame, recomputed>>

\* Mutant of tcp_mario_ssthresh: base_cwnd is returned but tp->snd_cwnd is
\* left as the kernel had it.
tcp_mario_ssthresh_nowrite(sk) ==
    /\ Running
    /\ sk \in DOMAIN snd_cwnd
    /\ call' = [op |-> "ssthresh", sk |-> sk, rtt_us |-> 0]
    /\ ret' = <<base_cwnd>>
    /\ UNCHANGED <<bandwidth, base_cwnd, rtt, rtt_cnt, factor, snd_cwnd, outcome>>
    /\ UNCHANGED <<frame, recomputed>>

tcp_mario_ssthresh(sk) ==
    /\ Running
    /\ sk \in DOMAIN snd_cwnd
    /\ SetCwnd(sk, base_cwnd)
    /\ call' = [op |-> "ssthresh", sk |-> sk, rtt_us |-> 0]
    /\ ret' = <<base_cwnd>>
    /\ UNCHANGED <<bandwidth, base_cwnd, rtt, rtt_cnt, factor, outcome>>
    /\ UNCHANGED <<frame, recomputed>>

tcp_mario_undo_cwnd(sk) ==
    /\ Running
    /\ sk \in DOMAIN snd_cwnd
    /\ SetCwnd(sk, base_cwnd)
    /\ call' = [op |-> "undo_cwnd", sk |-> sk, rtt_us |-> 0]
    /\ ret' = <<snd_cwnd'[sk]>>
    /\ UNCHANGED <<bandwidth, base_cwnd, rtt, rtt_cnt, factor, outcome>>
    /\ UNCHANGED <<frame, recomputed>>

\* Mutant of tcp_mario_pkts_acked: the call also stores the resulting
\* base_cwnd into the socket's snd_cwnd.
tcp_mario_pkts_acked_push(sk, rtt_us) ==
    /\ Running
    /\ sk \in DOMAIN snd_cwnd
    /\ call' = [op |-> "pkts_acked", sk |-> sk, rtt_us |-> rtt_us]
    /\ ret' = NoRet
    /\ IF rtt_cnt > SAMPLE_SIZE
       THEN UNCHANGED <<rtt, rtt_cnt, base_cwnd, outcome>>
       ELSE LET ms == TruncDiv(rtt_us, 1000)
                cnt1 == IF ValidSample(ms) THEN rtt_cnt + 1 ELSE rtt_cnt
                sum1 == IF ValidSample(ms) THEN rtt + ms ELSE rtt
            IN  /\ rtt_cnt' = cnt1
                /\ rtt' = sum1
                /\ IF cnt1 = SAMPLE_SIZE
                   THEN IF Divisor(factor) = 0
                        THEN \/ /\ outcome' = "div_trap"
                                /\ UNCHANGED base_cwnd
                             \/ /\ outcome' = "ok"
                                /\ base_cwnd' \in EstimateWith(bandwidth, 0)
                        ELSE /\ outcome' = "ok"
                             /\ base_cwnd' \in Estimate(bandwidth, AvgRtt(sum1, cnt1), factor)
                   ELSE UNCHANGED <<base_cwnd, outcome>>
    /\ SetCwnd(sk, base_cwnd')
    /\ UNCHANGED <<bandwidth, factor>>
    /\ recomputed' = (recomputed \/ (rtt_cnt <= SAMPLE_SIZE /\ rtt_cnt' = SAMPLE_SIZE))
    /\ UNCHANGED frame

tcp_mario_pkts_acked(sk, rtt_us) ==
    /\ Running
    /\ sk \in DOMAIN snd_cwnd
    /\ call' = [op |-> "pkts_acked", sk |-> sk, rtt_us |-> rtt_us]
    /\ ret' = NoRet
    /\ IF rtt_cnt > SAMPLE_SIZE
       THEN UNCHANGED <<rtt, rtt_cnt, base_cwnd, outcome>>
       ELSE LET ms == TruncDiv(rtt_us, 1000)
                cnt1 == IF ValidSample(ms) THEN rtt_cnt + 1 ELSE rtt_cnt
                sum1 == IF ValidSample(ms) THEN rtt + ms ELSE rtt
            IN  /\ rtt_cnt' = cnt1
                /\ rtt' = sum1
                /\ IF cnt1 = SAMPLE_SIZE
                   THEN IF Divisor(factor) = 0
                        THEN \* division by zero: the CPU traps, or (no trap on
                             \* the architecture) the quotient is 0
                             \/ /\ outcome' = "div_trap"
                                /\ UNCHANGED base_cwnd
                             \/ /\ outcome' = "ok"
                                /\ base_cwnd' \in EstimateWith(bandwidth, 0)
                        ELSE /\ outcome' = "ok"
                             /\ base_cwnd' \in Estimate(bandwidth, AvgRtt(sum1, cnt1), factor)
                   ELSE UNCHANGED <<base_cwnd, outcome>>
    /\ UNCHANGED <<bandwidth, factor, snd_cwnd>>
    /\ recomputed' = (recomputed \/ (rtt_cnt <= SAMPLE_SIZE /\ rtt_cnt' = SAMPLE_SIZE))
    /\ UNCHANGED frame

\* ------------------------------------------------------------------------
\* Environment: the operator's writes and the kernel's own window logic
\* ------------------------------------------------------------------------
\* proc_dointvec parses an int and stores its 32 bits into the u32, so the
\* u32 is the written int v itself in the two's complement reading above
\* Mutant of sysctl_bandwidth: the write also refreshes base_cwnd from the
\* new bandwidth.
sysctl_bandwidth_refresh(v) ==
    /\ Running
    /\ bandwidth' = v
    /\ base_cwnd' = ShlBits(v, 7)
    /\ call' = [op |-> "write_bandwidth", sk |-> 0, rtt_us |-> 0]
    /\ ret' = NoRet
    /\ UNCHANGED <<rtt, rtt_cnt, factor, snd_cwnd, outcome>>
    /\ UNCHANGED <<frame, recomputed>>

sysctl_bandwidth(v) ==
    /\ Running
    /\ bandwidth' = v
    /\ call' = [op |-> "write_bandwidth", sk |-> 0, rtt_us |-> 0]
    /\ ret' = NoRet
    /\ UNCHANGED <<base_cwnd, rtt, rtt_cnt, factor, snd_cwnd, outcome>>
    /\ UNCHANGED <<frame, recomputed>>

\* Mutant of sysctl_factor: the write also restarts the sampling.
sysctl_factor_restart(v) ==
    /\ Running
    /\ factor' = v
    /\ rtt' = 0
    /\ rtt_cnt' = 0
    /\ call' = [op |-> "write_factor", sk |-> 0, rtt_us |-> 0]
    /\ ret' = NoRet
    /\ UNCHANGED <<bandwidth, base_cwnd, snd_cwnd, outcome>>
    /\ UNCHANGED <<frame, recomputed>>

sysctl_factor(v) ==
    /\ Running
    /\ factor' = v
    /\ call' = [op |-> "write_factor", sk |-> 0, rtt_us |-> 0]
    /\ ret' = NoRet
    /\ UNCHANGED <<bandwidth, base_cwnd, rtt, rtt_cnt, snd_cwnd, outcome>>
    /\ UNCHANGED <<frame, recomputed>>

\* "in case that the window size is reduced by kernel"
kernel_reduce(sk, w) ==
    /\ Running
    /\ sk \in DOMAIN snd_cwnd
    /\ SetCwnd(sk, w)
    /\ call' = [op |-> "kernel_reduce", sk |-> sk, rtt_us |-> 0]
    /\ ret' = NoRet
    /\ UNCHANGED <<bandwidth, base_cwnd, rtt, rtt_cnt, factor, outcome>>
    /\ UNCHANGED <<frame, recomputed>>

Next ==
    \/ \E sk \in Socks : tcp_mario_init(sk)
    \/ \E sk \in Socks : tcp_mario_cong_avoid(sk)
    \/ \E sk \in Socks : tcp_mario_ssthresh(sk)
    \/ \E sk \in Socks : tcp_mario_undo_cwnd(sk)
    \/ \E sk \in Socks, us \in RttSamples : tcp_mario_pkts_acked(sk, us)
    \/ \E v \in BandwidthWrites : sysctl_bandwidth(v)
    \/ \E v \in FactorWrites : sysctl_factor(v)
    \/ \E sk \in Socks, w \in KernelCwnd : kernel_reduce(sk, w)

Spec == Init /\ [][Next]_vars

\* One connection and its RTT sampling only, with samples of two different
\* accepted values, so that the estimate is taken over many averages.
NextEst ==
    \/ tcp_mario_init(1)
    \/ \E us \in EstSamples : tcp_mario_pkts_acked(1, us)
    \/ \E v \in BandwidthWrites : sysctl_bandwidth(v)
    \/ \E v \in FactorWrites : sysctl_factor(v)

SpecEst == Init /\ [][NextEst]_vars

\* ------------------------------------------------------------------------
\* pkts_acked statement by statement, for calls on different sockets that
\* run at the same time (the socket lock orders the calls of one socket
\* only; rtt, rtt_cnt and base_cwnd are shared and not locked)
\* ------------------------------------------------------------------------
\* rtt_us arguments of the interleaved calls
RaceSamples == {-500, 150000}

At(sk, line) == sk \in DOMAIN frame /\ frame[sk].pc = line

Goto(sk, line) == frame' = [frame EXCEPT ![sk].pc = line]

Return(sk) == frame' = [s \in DOMAIN frame \ {sk} |-> frame[s]]

\* the kernel calls tcp_mario_pkts_acked(sk, num_acked, rtt_us)
pkts_acked_enter(sk, rtt_us) ==
    /\ Running
    /\ sk \in DOMAIN snd_cwnd
    /\ sk \notin DOMAIN frame
    /\ frame' = [s \in DOMAIN frame \cup {sk} |->
                    IF s = sk THEN [pc |-> "l87", rtt_us |-> rtt_us, avg_rtt |-> 0]
                    ELSE frame[s]]
    /\ call' = [op |-> "pkts_acked", sk |-> sk, rtt_us |-> rtt_us]
    /\ ret' = NoRet
    /\ UNCHANGED <<bandwidth, base_cwnd, rtt, rtt_cnt, factor, snd_cwnd, outcome, recomputed>>

\* if(rtt_cnt > SAMPLE_SIZE){ return; }
pkts_acked_l87(sk) ==
    /\ Running
    /\ At(sk, "l87")
    /\ IF rtt_cnt > SAMPLE_SIZE THEN Return(sk) ELSE Goto(sk, "l90")
    /\ UNCHANGED <<bandwidth, base_cwnd, rtt, rtt_cnt, factor, snd_cwnd, call, ret,
                   outcome, recomputed>>

\* rtt_us /= 1000;
pkts_acked_l90(sk) ==
    /\ Running
    /\ At(sk, "l90")
    /\ frame' = [frame EXCEPT ![sk].pc = "l92",
                              ![sk].rtt_us = TruncDiv(frame[sk].rtt_us, 1000)]
    /\ UNCHANGED <<bandwidth, base_cwnd, rtt, rtt_cnt, factor, snd_cwnd, call, ret,
                   outcome, recomputed>>

\* if(rtt_us > 0 && rtt_us < 300){
pkts_acked_l92(sk) ==
    /\ Running
    /\ At(sk, "l92")
    /\ IF ValidSample(frame[sk].rtt_us) THEN Goto(sk, "l93") ELSE Goto(sk, "l96")
    /\ UNCHANGED <<bandwidth, base_cwnd, rtt, rtt_cnt, factor, snd_cwnd, call, ret,
                   outcome, recomputed>>

\* rtt_cnt++;
pkts_acked_l93(sk) ==
    /\ Running
    /\ At(sk, "l93")
    /\ rtt_cnt' = rtt_cnt + 1
    /\ Goto(sk, "l94")
    /\ UNCHANGED <<bandwidth, base_cwnd, rtt, factor, snd_cwnd, call, ret, outcome,
                   recomputed>>

\* rtt += rtt_us;
pkts_acked_l94(sk) ==
    /\ Running
    /\ At(sk, "l94")
    /\ rtt' = rtt + frame[sk].rtt_us
    /\ Goto(sk, "l96")
    /\ UNCHANGED <<bandwidth, base_cwnd, rtt_cnt, factor, snd_cwnd, call, ret, outcome,
                   recomputed>>

\* if(rtt_cnt == SAMPLE_SIZE){
pkts_acked_l96(sk) ==
    /\ Running
    /\ At(sk, "l96")
    /\ IF rtt_cnt = SAMPLE_SIZE THEN Goto(sk, "l97") ELSE Return(sk)
    /\ UNCHANGED <<bandwidth, base_cwnd, rtt, rtt_cnt, factor, snd_cwnd, call, ret,
                   outcome, recomputed>>

\* avg_rtt = rtt/rtt_cnt;   (rtt_cnt is read again: an init on the other
\* socket may have zeroed it since line 96)
pkts_acked_l97(sk) ==
    /\ Running
    /\ At(sk, "l97")
    /\ IF rtt_cnt = 0
       THEN \/ /\ outcome' = "div_trap"
               /\ UNCHANGED frame
            \/ /\ outcome' = "ok"
               /\ frame' = [frame EXCEPT ![sk].pc = "l98", ![sk].avg_rtt = 0]
       ELSE /\ outcome' = "ok"
            /\ frame' = [frame EXCEPT ![sk].pc = "l98",
                                      ![sk].avg_rtt = AvgRtt(rtt, rtt_cnt)]
    /\ UNCHANGED <<bandwidth, base_cwnd, rtt, rtt_cnt, factor, snd_cwnd, call, ret,
                   recomputed>>

\* base_cwnd = 1 + bandwidth << 10 * avg_rtt/(factor * 1000);
pkts_acked_l98(sk) ==
    /\ Running
    /\ At(sk, "l98")
    /\ recomputed' = TRUE
    /\ IF Divisor(factor) = 0
       THEN \/ /\ outcome' = "div_trap"
               /\ UNCHANGED <<base_cwnd, frame>>
            \/ /\ outcome' = "ok"
               /\ base_cwnd' \in EstimateWith(bandwidth, 0)
               /\ Return(sk)
       ELSE /\ outcome' = "ok"
            /\ base_cwnd' \in Estimate(bandwidth, frame[sk].avg_rtt, factor)
            /\ Return(sk)
    /\ UNCHANGED <<bandwidth, rtt, rtt_cnt, factor, snd_cwnd, call, ret>>

\* init is called on a socket that has no pkts_acked call in progress
NextRace ==
    \/ \E sk \in Socks : sk \notin DOMAIN frame /\ tcp_mario_init(sk)
    \/ \E sk \in Socks, us \in RaceSamples : pkts_acked_enter(sk, us)
    \/ \E sk \in Socks : pkts_acked_l87(sk)
    \/ \E sk \in Socks : pkts_acked_l90(sk)
    \/ \E sk \in Socks : pkts_acked_l92(sk)
    \/ \E sk \in Socks : pkts_acked_l93(sk)
    \/ \E sk \in Socks : pkts_acked_l94(sk)
    \/ \E sk \in Socks : pkts_acked_l96(sk)
    \/ \E sk \in Socks : pkts_acked_l97(sk)
    \/ \E sk \in Socks : pkts_acked_l98(sk)

SpecRace == Init /\ [][NextRace]_vars

\* ========================================================================
\* Properties
\* ========================================================================

\* Helpers for stating the properties ------------------------------------

\* the millisecond value of the sample the last pkts_acked call was given
CallMs == TruncDiv(call.rtt_us, 1000)

\* the last call was pkts_acked with an accepted sample and the count stands
\* at SAMPLE_SIZE: this call delivered the 100th valid sample
BatchJustCompleted ==
    /\ call.op = "pkts_acked"
    /\ CallMs >= 1 /\ CallMs <= 299
    /\ rtt_cnt = SAMPLE_SIZE

\* x / d on u32 for a divisor 1 <= d < 2^15 (long division over the halves)
DivU32Small(x, d) ==
    LET r == Hi(x) % d
    IN  U32(Hi(x) \div d, (r * W + Lo(x)) \div d)

\* 1 + ((bw << 10) * avg) / (f * 1000) on u32, for 1 <= avg <= 299 and a
\* factor 1 <= f <= 32 (so that f * 1000 < 2^15)
DocumentedTarget(bw, avg, f) ==
    AddU32(1, DivU32Small(MulU32(ShlBits(bw, 10), avg), f * 1000))

\* the natural number x * 128 for a u32 x, as three base-2^16 digits
\* <<top, high, low>>; and a u32 as such a number
Times128(x) ==
    LET l == Lo(x) * 128
        h == Hi(x) * 128 + (l \div W)
    IN  <<h \div W, h % W, l % W>>
Digits(x) == <<0, Hi(x), Lo(x)>>

\* C1: when a pkts_acked call brings the count of valid samples to exactly
\* 100, base_cwnd is 1 + ((bandwidth << 10) * avg) / (factor * 1000) with
\* avg = rtt / rtt_cnt (stated for the factors 1..32 and the bandwidths
\* below 2^22, for which bandwidth << 10 does not wrap); in particular
\* bandwidth 1000, factor 10 and 100 samples of 50 ms give 513.
C1_TargetIsDocumentedFormula ==
    /\ (BatchJustCompleted /\ factor >= 1 /\ factor <= 32
           /\ bandwidth >= 0 /\ bandwidth < 2^22)
          => base_cwnd = DocumentedTarget(bandwidth, rtt \div rtt_cnt, factor)
    /\ (BatchJustCompleted /\ bandwidth = 1000 /\ factor = 10 /\ rtt = 5000)
          => base_cwnd = 513

\* C2: after a cong_avoid, ssthresh or undo_cwnd call on a socket, that
\* socket's snd_cwnd equals base_cwnd, and ssthresh and undo_cwnd return
\* base_cwnd.
C2_OverrideYieldsTarget ==
    call.op \in {"cong_avoid", "ssthresh", "undo_cwnd"}
        => /\ snd_cwnd[call.sk] = base_cwnd
           /\ call.op # "cong_avoid" => ret = <<base_cwnd>>

\* C2 witness: undo_cwnd has just re-asserted a freshly estimated window
\* (bandwidth 1000, factor 1, average 150 ms) while the other socket still
\* holds a window the kernel reduced.
C2_Witness ==
    /\ call.op = "undo_cwnd"
    /\ base_cwnd = 2002
    /\ snd_cwnd[call.sk] = 2002
    /\ ret = <<2002>>
    /\ \E s \in DOMAIN snd_cwnd : s # call.sk /\ snd_cwnd[s] = 1

\* C3: the window computed when a batch completes is at least 1, for every
\* bandwidth, every average in 1..299 and every factor > 0.
C3_TargetAtLeastOne ==
    (BatchJustCompleted /\ factor # 0 /\ outcome = "ok") => base_cwnd # 0

\* C4: if bandwidth is 0 when a batch completes, the window becomes exactly 1,
\* for every average in 1..299 and every factor > 0.
C4_ZeroBandwidthGivesOne ==
    (BatchJustCompleted /\ bandwidth = 0 /\ factor # 0 /\ outcome = "ok")
        => base_cwnd = 1

\* C5: once the 100th valid sample has been delivered, no later pkts_acked
\* call changes base_cwnd (until the next init).
C5_NoRecomputeAfterBatch ==
    [][(call'.op = "pkts_acked" /\ rtt_cnt >= SAMPLE_SIZE)
          => base_cwnd' = base_cwnd]_vars

\* C6 as stated: init sets the socket's snd_cwnd to the natural number
\* bandwidth * 128, for every bandwidth.
C6_InitWindowIsExactProduct ==
    call.op = "init" => Digits(snd_cwnd[call.sk]) = Times128(bandwidth)

\* C6 amended: init sets the socket's snd_cwnd to bandwidth * 128 modulo 2^32
\* (the low 32 bits of the product); that is bandwidth * 128 itself whenever
\* bandwidth < 2^25.
C6_InitWindowIsProductMod32 ==
    call.op = "init"
        => /\ Digits(snd_cwnd[call.sk])
                = <<0, Times128(bandwidth)[2], Times128(bandwidth)[3]>>
           /\ Hi(bandwidth) < 512
                => Digits(snd_cwnd[call.sk]) = Times128(bandwidth)

\* C6 witness: init has run with bandwidth = 2^32 - 1; the product is
\* 2^39 - 128 and the socket holds its low 32 bits, 2^32 - 128.
C6_Witness ==
    /\ call.op = "init"
    /\ bandwidth = -1
    /\ snd_cwnd[call.sk] = -128
    /\ Times128(bandwidth) = <<127, 65535, 65408>>

\* C7: a pkts_acked call whose sample is <= 0 ms or >= 300 ms leaves rtt_cnt
\* and rtt unchanged.
C7_RejectedSampleKeepsAccumulator ==
    [][(call'.op = "pkts_acked"
          /\ (TruncDiv(call'.rtt_us, 1000) <= 0 \/ TruncDiv(call'.rtt_us, 1000) >= 300))
          => (rtt_cnt' = rtt_cnt /\ rtt' = rtt)]_vars

\* C7 witness: a 300 ms sample has just been refused with 50 samples of
\* 150 ms accumulated.
C7_Witness ==
    /\ call.op = "pkts_acked"
    /\ call.rtt_us = 300000
    /\ rtt_cnt = 50
    /\ rtt = 7500

\* C8: a pkts_acked call with a negative rtt_us changes nothing: rtt_cnt,
\* rtt, base_cwnd and every socket's snd_cwnd stay as they were.
C8_NegativeSampleIsNoOp ==
    [][(call'.op = "pkts_acked" /\ call'.rtt_us < 0)
          => UNCHANGED <<rtt_cnt, rtt, base_cwnd, snd_cwnd>>]_vars

\* C9: if factor * 1000 is 0 when a batch completes, pkts_acked ends in an
\* explicit InvalidParameter outcome instead of dividing by zero.
C9_ZeroFactorIsInvalidParameter ==
    (call.op = "pkts_acked" /\ rtt_cnt = SAMPLE_SIZE /\ Divisor(factor) = 0)
        => outcome = "InvalidParameter"

\* C10: an init or pkts_acked call on one socket never changes the sample
\* count, the sample sum or the target window that a different connected
\* socket's cong_avoid, ssthresh or undo_cwnd then yields.
C10_ConnectionsIsolated ==
    [][call'.op \in {"init", "pkts_acked"}
          => \A other \in DOMAIN snd_cwnd \ {call'.sk} :
                 UNCHANGED <<rtt_cnt, rtt, base_cwnd>>]_vars

\* C11: in every reachable state the sample count is between 0 and 100.
C11_CountAtMostBatchSize ==
    rtt_cnt >= 0 /\ rtt_cnt <= SAMPLE_SIZE

\* C12 as stated: base_cwnd changes only in the pkts_acked step that takes
\* the count of valid samples from 99 to 100.
C12_TargetChangesOnlyAtBatch ==
    [][base_cwnd' # base_cwnd
          => (call'.op = "pkts_acked"
                /\ rtt_cnt = SAMPLE_SIZE - 1 /\ rtt_cnt' = SAMPLE_SIZE)]_vars

\* C12 amended: base_cwnd changes only in an init step (which sets it to
\* bandwidth << 7) or in a pkts_acked step that ends with the count at
\* exactly 100; cong_avoid, ssthresh, undo_cwnd, the operator's writes and
\* every other pkts_acked step leave it unchanged.
C12_TargetChangesOnlyAtInitOrBatch ==
    [][base_cwnd' # base_cwnd
          => \/ call'.op = "init"
             \/ (call'.op = "pkts_acked" /\ rtt_cnt' = SAMPLE_SIZE)]_vars

\* C12 witness: init has replaced an estimated window (1001, still held by
\* the other socket) by bandwidth << 7.
C12_Witness ==
    /\ call.op = "init"
    /\ bandwidth = 1000
    /\ base_cwnd = 128000
    /\ \E s \in DOMAIN snd_cwnd : s # call.sk /\ snd_cwnd[s] = 1001

\* C13: a pkts_acked call that arrives with the count at or past 100 changes
\* neither the count nor the sum nor base_cwnd, whatever the sample.
C13_FullAccumulatorIsNoOp ==
    [][(call'.op = "pkts_acked" /\ rtt_cnt >= SAMPLE_SIZE)
          => (rtt_cnt' = rtt_cnt /\ rtt' = rtt /\ base_cwnd' = base_cwnd)]_vars

\* C14 as stated: init sets the count to zero and leaves the sum unchanged.
C14_InitKeepsSum ==
    [][call'.op = "init" => (rtt_cnt' = 0 /\ rtt' = rtt)]_vars

\* C14 amended: init sets both the count and the sum to zero.
C14_InitResetsCountAndSum ==
    call.op = "init" => (rtt_cnt = 0 /\ rtt = 0)

\* C14 witness: init has run after a batch had completed (the other socket
\* still holds the window 2002 estimated from it) and count and sum are 0.
C14_Witness ==
    /\ call.op = "init"
    /\ rtt_cnt = 0
    /\ rtt = 0
    /\ \E s \in DOMAIN snd_cwnd : s # call.sk /\ snd_cwnd[s] = 2002

\* C15: a sample of m ms, 1 <= m <= 299 (m = rtt_us / 1000 truncated toward
\* zero), that arrives with the count below 100 raises the count by exactly 1
\* and the sum by exactly m.
C15_AcceptedSampleAccumulates ==
    [][(call'.op = "pkts_acked"
          /\ TruncDiv(call'.rtt_us, 1000) >= 1
          /\ TruncDiv(call'.rtt_us, 1000) <= 299
          /\ rtt_cnt < SAMPLE_SIZE)
          => (rtt_cnt' = rtt_cnt + 1
                /\ rtt' = rtt + TruncDiv(call'.rtt_us, 1000))]_vars

\* C15 witness: a sample of 299999 us has been accepted as 299 ms after one
\* of 50 ms.
C15_Witness ==
    /\ call.op = "pkts_acked"
    /\ call.rtt_us = 299999
    /\ rtt_cnt = 2
    /\ rtt = 349

\* C16: a write to bandwidth or to factor changes only that parameter.
C16_WriteChangesOnlyItsParameter ==
    [][/\ call'.op = "write_bandwidth"
            => UNCHANGED <<factor, rtt_cnt, rtt, base_cwnd, snd_cwnd>>
       /\ call'.op = "write_factor"
            => UNCHANGED <<bandwidth, rtt_cnt, rtt, base_cwnd, snd_cwnd>>]_vars

\* C16 witness: factor has just been written in the middle of a batch, with
\* a connection open and bandwidth set earlier.
C16_Witness ==
    /\ call.op = "write_factor"
    /\ factor = 1
    /\ bandwidth = 1000
    /\ rtt_cnt = 50
    /\ rtt = 7500
    /\ base_cwnd = 128000
    /\ \E s \in DOMAIN snd_cwnd : snd_cwnd[s] = 128000

\* C17: with pkts_acked calls of two sockets interleaved statement by
\* statement, whenever no call is in progress and the count has reached or
\* passed 100 since the last init, line 98 has recomputed the window at
\* least once since that init.
C17_BatchNeverCompletesUnrefreshed ==
    (DOMAIN frame = {} /\ rtt_cnt >= SAMPLE_SIZE) => recomputed

\* C18: pkts_acked never writes a socket's snd_cwnd; among the module's
\* operations a socket's snd_cwnd changes only in that socket's own init,
\* cong_avoid, ssthresh or undo_cwnd (the only other writer is the kernel's
\* own window logic).
C18_WindowWrittenOnlyByOwnHooks ==
    [][\A s \in DOMAIN snd_cwnd' :
          (call'.op # "kernel_reduce"
             /\ (s \notin DOMAIN snd_cwnd \/ snd_cwnd'[s] # snd_cwnd[s]))
          => (call'.op \in {"init", "cong_avoid", "ssthresh", "undo_cwnd"}
                /\ call'.sk = s)]_vars

\* C18 witness: pkts_acked has just completed a batch and computed the
\* window 1001, and the socket still holds the 128000 its init gave it.
C18_Witness ==
    /\ call.op = "pkts_acked"
    /\ rtt_cnt = SAMPLE_SIZE
    /\ base_cwnd = 1001
    /\ snd_cwnd[call.sk] = 128000

\* C19: with calls that do not interleave, rtt_cnt <= rtt <= 299 * rtt_cnt in
\* every reachable state, so the average taken when the window is recomputed
\* lies in 1..299.
C19_SumBoundedByCount ==
    /\ rtt_cnt <= rtt
    /\ rtt <= 299 * rtt_cnt
    /\ rtt_cnt = SAMPLE_SIZE
          => (rtt \div rtt_cnt >= 1 /\ rtt \div rtt_cnt <= 299)

\* C19 witness: a batch of 100 samples of 299 ms each has completed, the sum
\* standing at the upper limit.
C19_Witness ==
    /\ call.op = "pkts_acked"
    /\ rtt_cnt = SAMPLE_SIZE
    /\ rtt = 29900

====
